---- MODULE Spec2Model ----
(***************************************************************************)
(* Model of scripts/add_ochibi-chans-converter-tool_version.py: the        *)
(* version comparator (parse_version), the entry cloning and insertion of  *)
(* add_version, the temp-file + rename of write_json, and main's error     *)
(* handling.                                                               *)
(*                                                                         *)
(* A Python str is a sequence of one-character strings; a dict is the      *)
(* sequence of its (key, value) items in insertion order.                  *)
(***************************************************************************)
EXTENDS Integers, Sequences, FiniteSets, TLC

VARIABLES
    fs,        \* the files: path -> content (a sequence of tokens) or NoFile
    pc,        \* where the current run of main() stands
    run,       \* the current run: its version and --output, its temporary file's name
    payload,   \* the token sequence write_json has been asked to write
    temp,      \* the current run's temporary file: its name and what is written
    outcome,   \* how the current run ended (or "none" while it runs)
    why,       \* which failure ended it ("" when none)
    fault,     \* TRUE when the environment hit this run (I/O error, interrupt)
    before,    \* fs as it was when the current run started
    prev,      \* the previous completed run: what it read, was asked, and did
    nruns,     \* the number of runs started
    pa, pb,    \* the version strings under the comparator (SpecParse, SpecOrder)
    pk         \* what the comparator made of them

vars == <<fs, pc, run, payload, temp, outcome, why, fault, before, prev, nruns, pa, pb, pk>>

----------------------------------------------------------------------------
(* Characters and strings *)

NL == "\n"

Digits == {"0", "1", "2"}

Letters == {"a", "b"}

\* ord(): Python compares str values by code point
Ord(c) ==
    CASE c = NL  -> 10
      [] c = "-" -> 45
      [] c = "." -> 46
      [] c = "/" -> 47
      [] c = "0" -> 48
      [] c = "1" -> 49
      [] c = "2" -> 50
      [] c = "_" -> 95
      [] c = "a" -> 97
      [] c = "b" -> 98

Min(a, b) == IF a <= b THEN a ELSE b

SetMin(S) == CHOOSE x \in S : \A y \in S : x <= y

\* s[i:] and s[:i-1] of a sequence
Drop(s, n) == SubSeq(s, n + 1, Len(s))

Take(s, n) == SubSeq(s, 1, n)

\* the index of the first occurrence of character c in s, 0 when there is none
FindChar(s, c) ==
    LET I == {i \in 1..Len(s) : s[i] = c}
    IN IF I = {} THEN 0 ELSE SetMin(I)

\* str.split(sep) for a one-character separator
RECURSIVE Split(_, _)
Split(s, sep) ==
    LET i == FindChar(s, sep)
    IN IF i = 0 THEN <<s>>
       ELSE <<Take(s, i - 1)>> \o Split(Drop(s, i), sep)

\* str.isdigit() within the alphabet
IsDigit(s) == Len(s) > 0 /\ \A i \in 1..Len(s) : s[i] \in Digits

DigitVal(c) == Ord(c) - 48

\* int() of a digit string (leading zeros are accepted by int)
RECURSIVE ToInt(_)
ToInt(s) ==
    IF Len(s) = 0 THEN 0
    ELSE ToInt(Take(s, Len(s) - 1)) * 10 + DigitVal(s[Len(s)])

\* the position at which sub first occurs in s, 0 when it does not (str.find + 1)
Find(s, sub) ==
    LET I == {i \in 1..(Len(s) - Len(sub) + 1) : SubSeq(s, i, i + Len(sub) - 1) = sub}
    IN IF I = {} THEN 0 ELSE SetMin(I)

\* sub in s
Contains(s, sub) == Find(s, sub) # 0

\* s.replace(old, new, 1): the first occurrence only (old is never empty here)
MutReplaceAll(s, old, new) ==
    LET i == Find(s, old)
    IN IF i = 0 THEN s
       ELSE LET rest == Drop(s, i + Len(old) - 1)
                j == Find(rest, old)
            IN Take(s, i - 1) \o new \o
               (IF j = 0 THEN rest
                ELSE Take(rest, j - 1) \o new \o Drop(rest, j + Len(old) - 1))

ReplaceFirst(s, old, new) ==
    LET i == Find(s, old)
    IN IF i = 0 THEN s
       ELSE Take(s, i - 1) \o new \o Drop(s, i + Len(old) - 1)

----------------------------------------------------------------------------
(* The version comparator *)

\* [0-9A-Za-z-]
IdChar(c) == c \in Digits \/ c \in Letters \/ c = "-"

\* PRERELEASE_IDENTIFIER_PATTERN.match
PRERELEASE_IDENTIFIER_PATTERN(s) == Len(s) > 0 /\ \A i \in 1..Len(s) : IdChar(s[i])

\* a regex "$" also matches just before one trailing newline
StripNL(s) == IF Len(s) > 0 /\ s[Len(s)] = NL THEN Take(s, Len(s) - 1) ELSE s

\* \d+(?:\.\d+)*
CoreOk(c) == \A i \in 1..Len(Split(c, ".")) : IsDigit(Split(c, ".")[i])

\* SEMVER_PATTERN.match: whether it matches, and the groups core and prerelease
SEMVER_PATTERN(s) ==
    LET body == StripNL(s)
        d == FindChar(body, "-")
        core == IF d = 0 THEN body ELSE Take(body, d - 1)
        pre == IF d = 0 THEN <<>> ELSE Drop(body, d)
    IN [ match |-> /\ CoreOk(core)
                   /\ d # 0 => /\ Len(pre) > 0
                               /\ \A i \in 1..Len(pre) : IdChar(pre[i]) \/ pre[i] = "."
       , core |-> core
       , hasPre |-> d # 0
       , prerelease |-> pre ]

\* A prerelease token (0, int) or (1, str); isnum is the Python type of the
\* second component, which decides whether two of them can be compared.
NumToken(n) == [err |-> FALSE, tag |-> 0, isnum |-> TRUE, num |-> n, str |-> <<>>]

StrToken(s) == [err |-> FALSE, tag |-> 1, isnum |-> FALSE, num |-> 0, str |-> s]

ErrToken == [err |-> TRUE, tag |-> 0, isnum |-> TRUE, num |-> 0, str |-> <<>>]

Mut_parse_prerelease_identifier(identifier) ==
    IF Len(identifier) = 0 THEN ErrToken
    ELSE IF ~PRERELEASE_IDENTIFIER_PATTERN(identifier) THEN ErrToken
    ELSE IF IsDigit(identifier) /\ Len(identifier) > 1 /\ identifier[1] = "0" THEN ErrToken
    ELSE StrToken(identifier)

_parse_prerelease_identifier(identifier) ==
    IF Len(identifier) = 0 THEN ErrToken
    ELSE IF ~PRERELEASE_IDENTIFIER_PATTERN(identifier) THEN ErrToken
    ELSE IF IsDigit(identifier)
         THEN IF Len(identifier) > 1 /\ identifier[1] = "0" THEN ErrToken
              ELSE NumToken(ToInt(identifier))
    ELSE StrToken(identifier)

InvalidKey == [ok |-> FALSE, core |-> <<>>, rel |-> 0, pre |-> <<>>]

\* parse_version: ok = FALSE stands for ValueError; otherwise the sort key
\* (core, (rel, pre)) with rel = 1 for a stable release
parse_version(version) ==
    LET m == SEMVER_PATTERN(version)
    IN IF ~m.match THEN InvalidKey
       ELSE LET parts == Split(m.core, ".")
                core == [i \in 1..Len(parts) |-> ToInt(parts[i])]
            IN IF ~m.hasPre THEN [ok |-> TRUE, core |-> core, rel |-> 1, pre |-> <<>>]
               ELSE LET ids == Split(m.prerelease, ".")
                        toks == [i \in 1..Len(ids) |-> _parse_prerelease_identifier(ids[i])]
                    IN IF \E i \in 1..Len(toks) : toks[i].err THEN InvalidKey
                       ELSE [ok |-> TRUE, core |-> core, rel |-> 0, pre |-> toks]

\* Python's comparison of two sort keys: "lt", "eq", "gt", or "error" for the
\* TypeError of ordering an int against a str.
CmpInt(a, b) == IF a < b THEN "lt" ELSE IF a > b THEN "gt" ELSE "eq"

\* tuple and str comparison, from the comparisons cs of the positions both
\* have: the first differing position decides, then the lengths la and lb
CmpLex(cs, la, lb) ==
    LET D == {i \in 1..Len(cs) : cs[i] # "eq"}
    IN IF D = {} THEN CmpInt(la, lb) ELSE cs[SetMin(D)]

CmpChar(c, d) == CmpInt(Ord(c), Ord(d))

CmpStr(s, t) ==
    CmpLex([i \in 1..Min(Len(s), Len(t)) |-> CmpChar(s[i], t[i])], Len(s), Len(t))

CmpToken(t, u) ==
    IF t.tag # u.tag THEN CmpInt(t.tag, u.tag)
    ELSE IF t.isnum # u.isnum THEN "error"
    ELSE IF t.isnum THEN CmpInt(t.num, u.num)
    ELSE CmpStr(t.str, u.str)

CmpKey(k, l) ==
    LET c == CmpLex([i \in 1..Min(Len(k.core), Len(l.core)) |-> CmpInt(k.core[i], l.core[i])],
                    Len(k.core), Len(l.core))
    IN IF c # "eq" THEN c
       ELSE IF k.rel # l.rel THEN CmpInt(k.rel, l.rel)
       ELSE CmpLex([i \in 1..Min(Len(k.pre), Len(l.pre)) |-> CmpToken(k.pre[i], l.pre[i])],
                   Len(k.pre), Len(l.pre))

----------------------------------------------------------------------------
(* The manifest *)

\* a JSON value as far as the tool looks at it: a string, something else, or no such field
SV(s) == [kind |-> "str", s |-> s]

Other == [kind |-> "other", s |-> <<>>]

Absent == [kind |-> "absent", s |-> <<>>]

\* a version entry; name stands for every field the tool does not look at
Entry(version, url, name) == [dict |-> TRUE, version |-> version, url |-> url, name |-> name]

\* an entry that is not a JSON object
NonDict == [dict |-> FALSE, version |-> Absent, url |-> Absent, name |-> Absent]

\* A file's text as tokens: the manifest around the version map (head), one
\* token per "key": entry pair of the version map, the closing of the
\* document (end) and the trailing newline (nl).
\* shape: "ok" when data["packages"][PACKAGE_ID]["versions"] is an object,
\* "nokey" when one of the three keys is missing, "badtype" when a value on
\* the way is not an object.
Header(shape) == [t |-> "head", shape |-> shape, key |-> <<>>, entry |-> NonDict]

Item(key, entry) == [t |-> "item", shape |-> "", key |-> key, entry |-> entry]

End == [t |-> "end", shape |-> "", key |-> <<>>, entry |-> NonDict]

Newline == [t |-> "nl", shape |-> "", key |-> <<>>, entry |-> NonDict]

File(content) == [exists |-> TRUE, content |-> content]

NoFile == [exists |-> FALSE, content |-> <<>>]

Paths == {"in", "out"}

NoFiles == [p \in Paths |-> NoFile]

NoTemp == [exists |-> FALSE, name |-> "", content |-> <<>>]

NoRun == [ver |-> <<>>, out |-> "in", tmp |-> ""]

TempNames == {"tmp1", "tmp2"}

\* json.dump(payload, indent=4) followed by write("\n")
Dump(shape, items) ==
    <<Header(shape)>> \o [i \in 1..Len(items) |-> Item(items[i][1], items[i][2])]
                    \o <<End, Newline>>

\* whether json.load accepts the text: one whole document, then only whitespace
IsJSON(c) ==
    LET n == IF Len(c) > 0 /\ c[Len(c)].t = "nl" THEN Len(c) - 1 ELSE Len(c)
    IN /\ n >= 2
       /\ c[1].t = "head"
       /\ c[n].t = "end"
       /\ \A i \in 2..(n - 1) : c[i].t = "item"

KeyIndex(items, key) ==
    LET I == {i \in 1..Len(items) : items[i][1] = key}
    IN IF I = {} THEN 0 ELSE SetMin(I)

\* dict(pairs): a repeated key keeps its first position and takes the last value
RECURSIVE DictOf(_)
DictOf(pairs) ==
    IF Len(pairs) = 0 THEN <<>>
    ELSE LET d == DictOf(Take(pairs, Len(pairs) - 1))
             p == pairs[Len(pairs)]
             i == KeyIndex(d, p[1])
         IN IF i = 0 THEN Append(d, p) ELSE [d EXCEPT ![i] = p]

\* load_json, then data["packages"][PACKAGE_ID]["versions"]
load_json(file) ==
    IF ~file.exists THEN [err |-> "notfound", shape |-> "", items |-> <<>>]
    ELSE IF ~IsJSON(file.content) THEN [err |-> "json", shape |-> "", items |-> <<>>]
    ELSE LET c == file.content
             its == SelectSeq(c, LAMBDA tok : tok.t = "item")
         IN [ err |-> ""
            , shape |-> c[1].shape
            , items |-> DictOf([i \in 1..Len(its) |-> <<its[i].key, its[i].entry>>]) ]

\* max(versions.keys(), key=parse_version): the first key that none exceeds
RECURSIVE MaxFrom(_, _, _)
MaxFrom(keys, i, best) ==
    IF i > Len(keys) THEN best
    ELSE MaxFrom(keys, i + 1,
                 IF CmpKey(parse_version(keys[i]), parse_version(keys[best])) = "gt"
                 THEN i ELSE best)

MaxIndex(items) == MaxFrom([i \in 1..Len(items) |-> items[i][1]], 2, 1)

MutNoVersionCheck(latest_entry, latest_version) == TRUE

\* latest_entry.get("version") == latest_version
VersionMatches(latest_entry, latest_version) == latest_entry.version = SV(latest_version)

MutNeverExists(items, new_version) == FALSE

\* new_version in versions
AlreadyExists(items, new_version) == KeyIndex(items, new_version) # 0

MutNewEntryKeepsUrl(latest_entry, latest_version, new_version) ==
    [latest_entry EXCEPT !.version = SV(new_version)]

\* the deep copy of the latest entry with version and url rewritten
NewEntry(latest_entry, latest_version, new_version) ==
    [latest_entry EXCEPT
        !.version = SV(new_version),
        !.url = IF @.kind = "str"
                THEN SV(ReplaceFirst(@.s, latest_version, new_version))
                ELSE @]

MutInsertAtEnd(items, index, item) == Append(items, item)

\* items.insert(index + 1, item)
InsertAfter(items, index, item) ==
    Take(items, index) \o <<item>> \o Drop(items, index)

Fail(kind, reason) == [outcome |-> kind, why |-> reason, payload |-> <<>>]

\* lines 135-154 of add_version: clone the latest entry, insert it, hand the
\* manifest to write_json
CloneLatest(shape, items, index, latest_version, latest_entry, new_version) ==
    IF ~latest_entry.dict THEN Fail("traceback", "attribute")
    ELSE IF ~VersionMatches(latest_entry, latest_version) THEN Fail("error", "mismatch")
    ELSE IF latest_entry.url.kind = "str" /\ ~Contains(latest_entry.url.s, latest_version)
         THEN Fail("error", "url")
    ELSE [ outcome |-> "ok"
         , why |-> ""
         , payload |->
             Dump(shape,
                  DictOf(InsertAfter(items, index,
                      <<new_version, NewEntry(latest_entry, latest_version, new_version)>>))) ]

\* lines 128-129: the latest entry is the one under the greatest key
FromLatest(shape, items, index, new_version) ==
    CloneLatest(shape, items, index, items[index][1], items[index][2], new_version)

\* lines 123-134 of add_version, on the loaded document
AddTo(data, new_version) ==
    IF data.err # "" THEN Fail("error", data.err)
    ELSE IF data.shape = "nokey" THEN Fail("error", "key")
    ELSE IF data.shape = "badtype" THEN Fail("traceback", "type")
    ELSE IF AlreadyExists(data.items, new_version) THEN Fail("error", "exists")
    ELSE IF Len(data.items) = 0 THEN Fail("error", "empty")
    ELSE IF \E i \in 1..Len(data.items) : ~parse_version(data.items[i][1]).ok
         THEN Fail("error", "version")
    ELSE FromLatest(data.shape, data.items, MaxIndex(data.items), new_version)

\* add_version up to the call of write_json: the payload to write, or how it
\* fails; "error" is an exception main catches, "traceback" one it does not
add_version(file, new_version) ==
    IF ~parse_version(new_version).ok THEN Fail("error", "version")
    ELSE AddTo(load_json(file), new_version)

----------------------------------------------------------------------------
(* write_json and main *)

MaxEntries == 2

MaxRuns == 2

MutDumpInPlace(files, tmp, path, tok) ==
    [ fs |-> [files EXCEPT ![path] =
                File(IF tmp.content = <<>> THEN <<tok>> ELSE Append(@.content, tok))]
    , temp |-> [tmp EXCEPT !.content = Append(@, tok)] ]

MutDumpTempName(files, tmp, path, tok) ==
    [ fs |-> files
    , temp |-> [tmp EXCEPT !.content =
                  Append(@, IF tok.t = "head" THEN [tok EXCEPT !.shape = tmp.name] ELSE tok)] ]

\* one write of json.dump / temp_handle.write: it goes to the temporary file
DumpStep(files, tmp, path, tok) ==
    [ fs |-> files
    , temp |-> [tmp EXCEPT !.content = Append(@, tok)] ]

\* os.replace(temp_path, path)
os_replace(files, tmp, path) == [files EXCEPT ![path] = File(tmp.content)]

\* what a completed run leaves for the next one to be compared with
Completed ==
    [ ver |-> run.ver, out |-> run.out, tmp |-> run.tmp, outcome |-> outcome, why |-> why
    , fault |-> fault, read |-> before["in"], wrote |-> fs[run.out] ]

\* main() from the result r of add_version's reading and computing
Begun(v, o, r) ==
    /\ run' = [ver |-> v, out |-> o, tmp |-> ""]
    /\ before' = fs
    /\ prev' = IF pc = "done" THEN <<Completed>> ELSE prev
    /\ nruns' = nruns + 1
    /\ temp' = NoTemp
    /\ fault' = (r.why = "read")
    /\ payload' = r.payload
    /\ outcome' = IF r.outcome = "ok" THEN "none" ELSE r.outcome
    /\ why' = r.why
    /\ pc' = IF r.outcome = "ok" THEN "write" ELSE "done"
    /\ UNCHANGED <<fs, pa, pb, pk>>

\* main() up to write_json: parse the arguments, add_version reads and computes.
\* ioerror: the open or read of the input fails with an OSError that is not
\* FileNotFoundError (permissions, a directory, a failing device).
Begin(v, o, ioerror) ==
    Begun(v, o, IF ioerror /\ parse_version(v).ok /\ fs["in"].exists
                THEN Fail("traceback", "read")
                ELSE add_version(fs["in"], v))

NewVersions == { <<"2">>, <<"1", "0">>, <<"0", "2">>, <<"_">> }

Start ==
    /\ pc = "idle"
    /\ \E v \in NewVersions, o \in Paths, ioerror \in BOOLEAN : Begin(v, o, ioerror)

StartAgain ==
    /\ pc = "done"
    /\ nruns < MaxRuns
    /\ \E v \in NewVersions, o \in Paths, ioerror \in BOOLEAN : Begin(v, o, ioerror)

\* an uncaught OSError ends the run; write_json's finally removes the temporary file
Crash(stage) ==
    /\ pc' = "done"
    /\ outcome' = "traceback"
    /\ why' = stage
    /\ fault' = TRUE
    /\ temp' = NoTemp
    /\ UNCHANGED <<fs, run, payload, before, prev, nruns, pa, pb, pk>>

\* path.parent.mkdir and NamedTemporaryFile(dir=path.parent, delete=False)
CreateTemp ==
    /\ pc = "write"
    /\ \E name \in TempNames :
          /\ temp' = [exists |-> TRUE, name |-> name, content |-> <<>>]
          /\ run' = [run EXCEPT !.tmp = name]
    /\ pc' = "writing"
    /\ UNCHANGED <<fs, payload, outcome, why, fault, before, prev, nruns, pa, pb, pk>>

CreateFails == pc = "write" /\ Crash("create")

WriteToken ==
    /\ pc = "writing"
    /\ Len(temp.content) < Len(payload)
    /\ LET w == DumpStep(fs, temp, run.out, payload[Len(temp.content) + 1])
       IN fs' = w.fs /\ temp' = w.temp
    /\ UNCHANGED <<pc, run, payload, outcome, why, fault, before, prev, nruns, pa, pb, pk>>

\* leaving "with temp_handle": the file is flushed and closed
CloseTemp ==
    /\ pc = "writing"
    /\ Len(temp.content) = Len(payload)
    /\ pc' = "written"
    /\ UNCHANGED <<fs, run, payload, temp, outcome, why, fault, before, prev, nruns, pa, pb, pk>>

WriteFails == pc = "writing" /\ Crash("write")

\* os.replace, then add_version returns and main prints "Added version ..."
Replace ==
    /\ pc = "written"
    /\ fs' = os_replace(fs, temp, run.out)
    /\ temp' = NoTemp
    /\ outcome' = "ok"
    /\ pc' = "done"
    /\ UNCHANGED <<run, payload, why, fault, before, prev, nruns, pa, pb, pk>>

ReplaceFails == pc = "written" /\ Crash("replace")

\* the process is killed inside write_json before the rename: nothing more
\* runs. What was written of the temporary file stays behind under a name no
\* later run uses; temp, the current run's temporary file, stops tracking it.
Interrupt ==
    /\ pc \in {"write", "writing", "written"}
    /\ pc' = "done"
    /\ outcome' = "killed"
    /\ why' = "killed"
    /\ fault' = TRUE
    /\ temp' = NoTemp
    /\ UNCHANGED <<fs, run, payload, before, prev, nruns, pa, pb, pk>>

WriteJson ==
    \/ CreateTemp \/ CreateFails
    \/ WriteToken \/ CloseTemp \/ WriteFails
    \/ Replace \/ ReplaceFails
    \/ Interrupt

----------------------------------------------------------------------------
(* Spec: one run of the tool on every manifest of at most MaxEntries pairs *)

\* the entries a manifest may hold under key k: the url holds the version
\* once, twice, is missing, is no string, or does not hold the version; the
\* version field differs from the key; the entry is no object
EntriesFor(k) ==
    { Entry(SV(k), SV(<<"/">> \o k \o <<"/">>), SV(<<"a">>))
    , Entry(SV(k), SV(k \o <<"/">> \o k), SV(<<"b">>))
    , Entry(SV(k), Absent, SV(<<"a">>))
    , Entry(SV(k), Other, SV(<<"b">>))
    , Entry(SV(k), SV(<<"/">>), SV(<<"a">>))
    , Entry(SV(k \o <<"0">>), SV(<<"/">> \o k), SV(<<"b">>))
    , NonDict }

\* under these keys, the first and the sixth of them only
FewEntriesFor(k) ==
    { Entry(SV(k), SV(<<"/">> \o k \o <<"/">>), SV(<<"a">>))
    , Entry(SV(k \o <<"0">>), SV(<<"/">> \o k), SV(<<"b">>)) }

Pairs ==
    UNION { { <<k, e>> : e \in EntriesFor(k) } : k \in { <<"1">>, <<"2">> } }
    \cup UNION { { <<k, e>> : e \in FewEntriesFor(k) } : k \in { <<"0", "2">>, <<"2", "-", "a">> } }
    \cup { <<(<<"_">>), Entry(SV(<<"_">>), Absent, SV(<<"a">>))>> }

Manifests == UNION { [1..n -> Pairs] : n \in 0..MaxEntries }

\* files that are no well-shaped manifest
OddFiles ==
    { NoFile
    , File(<<>>)
    , File(<<Header("ok"), Item(<<"1">>, Entry(SV(<<"1">>), Absent, SV(<<"a">>)))>>)
    , File(Dump("nokey", <<>>))
    , File(Dump("badtype", <<>>)) }

Fresh ==
    /\ pc = "idle" /\ run = NoRun /\ payload = <<>> /\ temp = NoTemp /\ outcome = "none"
    /\ why = "" /\ fault = FALSE /\ prev = <<>> /\ nruns = 0
    /\ pa = <<>> /\ pb = <<>> /\ pk = <<>>
    /\ before = fs

Init ==
    /\ \E f \in {File(Dump("ok", m)) : m \in Manifests} \cup OddFiles :
          fs = [p \in Paths |-> IF p = "in" THEN f ELSE NoFile]
    /\ Fresh

Next == Start \/ WriteJson

Spec == Init /\ [][Next]_vars

----------------------------------------------------------------------------
(* The claims about a run *)

\* the version map the current run read, and the one in the file it wrote to
In == load_json(before["in"]).items

Out == load_json(fs[run.out]).items

KeyOf(items, i) == items[i][1]

EntryOf(items, i) == items[i][2]

\* the document is a manifest with a version map whose keys are all versions
Readable(data) ==
    /\ data.err = ""
    /\ data.shape = "ok"
    /\ Len(data.items) > 0
    /\ \A j \in 1..Len(data.items) : parse_version(KeyOf(data.items, j)).ok

\* key i is the latest: no key is greater under the order of the sort keys, and
\* it is the first such key
IsLatest(items, i) ==
    /\ \A j \in 1..Len(items) :
          CmpKey(parse_version(KeyOf(items, i)), parse_version(KeyOf(items, j))) \in {"gt", "eq"}
    /\ \A j \in 1..(i - 1) :
          CmpKey(parse_version(KeyOf(items, i)), parse_version(KeyOf(items, j))) = "gt"

LatestOf(items) == CHOOSE i \in 1..Len(items) : IsLatest(items, i)

\* sub occurs in s at position p, and nowhere before
OccursAt(s, sub, p) == p + Len(sub) - 1 <= Len(s) /\ SubSeq(s, p, p + Len(sub) - 1) = sub

FirstAt(s, sub, p) == OccursAt(s, sub, p) /\ \A q \in 1..(p - 1) : ~OccursAt(s, sub, q)

Occurs(s, sub) == \E p \in 1..Len(s) : OccursAt(s, sub, p)

\* new is old plus one entry under ver, right after the latest entry of old
Inserted(old, new, ver) ==
    /\ Len(new) = Len(old) + 1
    /\ \A j \in 1..Len(old) : KeyOf(old, j) # ver
    /\ \E i \in 1..Len(old) :
          /\ IsLatest(old, i)
          /\ KeyOf(new, i + 1) = ver
          /\ \A j \in 1..Len(old) : new[IF j <= i THEN j ELSE j + 1] = old[j]

\* C1: after a successful run the written version map is the map read plus
\* one entry under the new version: every entry read is there unchanged and
\* in the same order, and the new entry comes right after the latest one
\* (the first key none exceeds), wherever that one stands.
C1_InsertedAfterLatest == outcome = "ok" => Inserted(In, Out, run.ver)

\* C1's case: the latest entry was the first of two, the new one went between them
C1_Witness ==
    /\ outcome = "ok"
    /\ Len(In) = 2
    /\ IsLatest(In, 1)
    /\ KeyOf(Out, 2) = run.ver
    /\ Out[3] = In[2]

\* new is latest with version ver and the first occurrence of key in a string url replaced
RewrittenCopy(latest, key, new, ver) ==
    /\ new.dict
    /\ new.version = SV(ver)
    /\ new.name = latest.name
    /\ latest.url.kind # "str" => new.url = latest.url
    /\ latest.url.kind = "str" =>
          /\ new.url.kind = "str"
          /\ \E p \in 1..Len(latest.url.s) :
                /\ FirstAt(latest.url.s, key, p)
                /\ new.url.s = Take(latest.url.s, p - 1) \o ver
                                 \o Drop(latest.url.s, p + Len(key) - 1)

Cloned(old, new, i, ver) ==
    /\ RewrittenCopy(EntryOf(old, i), KeyOf(old, i), EntryOf(new, i + 1), ver)
    /\ new[i] = old[i]

\* the latest entry's url is a string in which the latest version does not occur
UrlLacksVersion(items, i) ==
    /\ EntryOf(items, i).dict
    /\ EntryOf(items, i).url.kind = "str"
    /\ ~Occurs(EntryOf(items, i).url.s, KeyOf(items, i))

UrlOfLatestLacksVersion(data) ==
    Readable(data) /\ UrlLacksVersion(data.items, LatestOf(data.items))

\* C2: the new entry is the latest entry with version set to the new version
\* and, when url is a string, the first occurrence of the latest version in
\* it replaced by the new version; every other field is the latest entry's,
\* the latest entry itself is written back unchanged; and a run fails, before
\* it writes, when the latest entry's url is a string without the latest
\* version in it.
C2_NewEntryIsRewrittenCopy ==
    /\ outcome = "ok" => Cloned(In, Out, LatestOf(In), run.ver)
    /\ \/ nruns = 0
       \/ pc = "done" /\ outcome \in {"error", "traceback"}
       \/ ~UrlOfLatestLacksVersion(load_json(before["in"]))

\* C2's case: the latest version stands twice in the url, the first was replaced
C2_Witness ==
    /\ outcome = "ok"
    /\ LET old == EntryOf(In, LatestOf(In))
       IN /\ old.url = SV(KeyOf(In, LatestOf(In)) \o <<"/">> \o KeyOf(In, LatestOf(In)))
          /\ EntryOf(Out, LatestOf(In) + 1).url = SV(run.ver \o <<"/">> \o KeyOf(In, LatestOf(In)))

\* C3: no partial writes. While a run is under way, and after it failed or
\* was interrupted, every file is what it was when the run began; after a
\* successful run only the destination differs, and it holds the whole payload
\* (a complete document and its final newline).
C3_NoPartialWrites ==
    nruns > 0 =>
        /\ outcome # "ok" => fs = before
        /\ outcome = "ok" =>
              /\ fs = [before EXCEPT ![run.out] = File(payload)]
              /\ IsJSON(payload)
              /\ payload[Len(payload)] = Newline

\* C3's case: the write to the temporary file failed half way, over the input file
C3_Witness ==
    /\ outcome = "traceback"
    /\ why = "write"
    /\ run.out = "in"
    /\ fs = before

\* C4 as claimed: no run succeeds on a manifest in which some entry's version
\* field differs from its key
C4_AnyMismatchRejected ==
    outcome = "ok" =>
        \A j \in 1..Len(In) :
            EntryOf(In, j).dict => EntryOf(In, j).version = SV(KeyOf(In, j))

VersionDiffers(items, i) ==
    EntryOf(items, i).dict /\ EntryOf(items, i).version # SV(KeyOf(items, i))

VersionOfLatestDiffers(data) ==
    Readable(data) /\ VersionDiffers(data.items, LatestOf(data.items))

\* C4 as amended: when the version field of the latest entry differs from its
\* key, the run ends with the error exit, before write_json is entered: no
\* file changes and no temporary file is made. (Other entries are not looked at.)
C4_LatestMismatchRejected ==
    \/ nruns = 0
    \/ /\ pc = "done"
       /\ outcome \in {"error", "traceback"}
       /\ ~fault => outcome = "error"
       /\ fs = before
       /\ run.tmp = ""
    \/ ~VersionOfLatestDiffers(load_json(before["in"]))

\* C4's case: the run that failed on the mismatch of the latest entry
C4_Witness ==
    /\ outcome = "error"
    /\ why = "mismatch"
    /\ VersionOfLatestDiffers(load_json(before["in"]))

\* C8: every failure of a run ends in the one error outcome, "Error: ..." and
\* exit code 1 (a killed process aside)
C8_EveryFailureIsErrorExit ==
    pc = "done" /\ outcome \notin {"ok", "killed"} => outcome = "error"

----------------------------------------------------------------------------
(* SpecSeq: up to MaxRuns runs, one after the other, from the manifests of *)
(* Seeds; SpecWF: the same from the well-formed ones among them.           *)

Plain(k) == Entry(SV(k), SV(<<"/">> \o k \o <<"/">>), SV(<<"a">>))

WellFormedSeeds ==
    { <<(<< <<"1">>, Plain(<<"1">>) >>)>>
    , << << <<"2">>, Entry(SV(<<"2">>), SV(<<"2", "/", "2">>), SV(<<"b">>)) >>
       , << <<"1">>, Plain(<<"1">>) >> >>
    , << << <<"2", "-", "a">>, Entry(SV(<<"2", "-", "a">>), Absent, SV(<<"a">>)) >>
       , << <<"1">>, Entry(SV(<<"1">>), Other, SV(<<"b">>)) >> >>
    , << << <<"0", "2">>, Plain(<<"0", "2">>) >>
       , << <<"1">>, Plain(<<"1">>) >> >> }

OtherSeeds ==
    { << << <<"2">>, Plain(<<"2">>) >>
       , << <<"1">>, Entry(SV(<<"1", "0">>), SV(<<"/", "1">>), SV(<<"b">>)) >> >>
    , <<(<< <<"1">>, Entry(SV(<<"1", "0">>), SV(<<"/", "1">>), SV(<<"b">>)) >>)>>
    , <<(<< <<"1">>, Entry(SV(<<"1">>), SV(<<"/">>), SV(<<"a">>)) >>)>>
    , <<(<< <<"1">>, NonDict >>)>>
    , <<>> }

InitSeq ==
    /\ \E f \in {File(Dump("ok", m)) : m \in WellFormedSeeds \cup OtherSeeds} \cup OddFiles :
          fs = [p \in Paths |-> IF p = "in" THEN f ELSE NoFile]
    /\ Fresh

NextSeq == Start \/ StartAgain \/ WriteJson

SpecSeq == InitSeq /\ [][NextSeq]_vars

InitWF ==
    /\ \E m \in WellFormedSeeds :
          fs = [p \in Paths |-> IF p = "in" THEN File(Dump("ok", m)) ELSE NoFile]
    /\ Fresh

SpecWF == InitWF /\ [][NextSeq]_vars

----------------------------------------------------------------------------
(* The claims about runs that follow one another *)

\* the run before this one succeeded, and this one has the same arguments
SameAgain ==
    /\ Len(prev) = 1
    /\ prev[1].outcome = "ok"
    /\ prev[1].ver = run.ver
    /\ prev[1].out = run.out

HowOften(items, key) == Cardinality({i \in 1..Len(items) : KeyOf(items, i) = key})

\* C5 as claimed: after a successful run, a second run with the same
\* arguments does not succeed
C5_SecondRunFails == nruns > 1 /\ SameAgain => outcome # "ok"

\* C5 as amended: after a successful run that wrote to the input path, a second
\* run with the same arguments ends at once with the "already exists" error
\* (or with the traceback of an I/O error on reading); it changes no file, and
\* the manifest holds one entry for the version.
C5_SecondRunOnSameFileFails ==
    nruns > 1 /\ SameAgain /\ run.out = "in" =>
        /\ pc = "done"
        /\ outcome \in {"error", "traceback"}
        /\ ~fault => outcome = "error" /\ why = "exists"
        /\ fs = before
        /\ HowOften(load_json(fs["in"]).items, run.ver) = 1

\* C5's case: the second run over the same file, refused
C5_Witness ==
    /\ nruns = 2
    /\ SameAgain
    /\ run.out = "in"
    /\ outcome = "error"
    /\ why = "exists"

\* C9: a run that read the same input and was given the same new version as
\* the run before it ends the same way, unless the environment struck one of
\* them (an I/O error, a kill); and when both succeed they leave the same
\* manifest, whatever the names of their temporary files and their --output.
C9_Deterministic ==
    ( /\ pc = "done"
      /\ Len(prev) = 1
      /\ prev[1].ver = run.ver
      /\ prev[1].read = before["in"] )
    => /\ ~fault /\ ~prev[1].fault => outcome = prev[1].outcome /\ why = prev[1].why
       /\ outcome = "ok" /\ prev[1].outcome = "ok" => fs[run.out] = prev[1].wrote

\* C9's case: two successful runs on the same input, with different temporary files
C9_Witness ==
    /\ pc = "done"
    /\ Len(prev) = 1
    /\ prev[1].ver = run.ver
    /\ prev[1].read = before["in"]
    /\ outcome = "ok"
    /\ prev[1].outcome = "ok"
    /\ prev[1].tmp # run.tmp
    /\ fs[run.out] = prev[1].wrote

\* every entry's version is its key, and every url that is a string holds it
WellFormed(file) ==
    /\ load_json(file).err = ""
    /\ \A i \in 1..Len(load_json(file).items) :
          LET k == KeyOf(load_json(file).items, i)
              e == EntryOf(load_json(file).items, i)
          IN /\ e.dict
             /\ e.version = SV(k)
             /\ e.url.kind = "str" => Occurs(e.url.s, k)

\* C10: from a well-formed manifest, whatever runs follow (successful, failed
\* or interrupted, with whatever new versions), every manifest on disk is
\* well-formed at every moment, the added entries included.
C10_WellFormedPreserved == \A p \in Paths : fs[p].exists => WellFormed(fs[p])

\* C10's case: two successful runs wrote back to the input path
C10_Witness ==
    /\ nruns = 2
    /\ outcome = "ok"
    /\ run.out = "in"
    /\ Len(prev) = 1
    /\ prev[1].outcome = "ok"
    /\ prev[1].out = "in"
    /\ Len(load_json(fs["in"]).items) = Len(load_json(prev[1].read).items) + 2

----------------------------------------------------------------------------
(* The comparator on its own: SpecParse applies parse_version to every     *)
(* string over ParseChars of length at most MaxLen; SpecOrder compares the *)
(* sort keys of every pair of versions in OrderStrs.                       *)

MaxLen == 4

MaxPreIds == 2

ParseChars == {"0", "1", "a", "-", ".", "_", NL}

ParseStrs == UNION {[1..n -> ParseChars] : n \in 0..MaxLen}

RECURSIVE Join(_, _)
Join(parts, sep) ==
    IF Len(parts) = 0 THEN <<>>
    ELSE IF Len(parts) = 1 THEN parts[1]
    ELSE parts[1] \o <<sep>> \o Join(Tail(parts), sep)

OrderCores == { <<"2">>, <<"1", "0">>, <<"0", "2">>, <<"2", ".", "2">>, <<"2", ".", "1", "0">> }

OrderIds == { <<"2">>, <<"1", "0">>, <<"a">> }

OrderPres == UNION {[1..n -> OrderIds] : n \in 1..MaxPreIds}

OrderStrs == OrderCores \cup {c \o <<"-">> \o Join(p, ".") : c \in OrderCores, p \in OrderPres}

Idle == /\ fs = NoFiles /\ run = NoRun /\ payload = <<>> /\ temp = NoTemp /\ outcome = "none"
        /\ why = "" /\ fault = FALSE /\ before = NoFiles /\ prev = <<>> /\ nruns = 0

InitParse == /\ Idle /\ pc = "parse" /\ pa \in ParseStrs /\ pb = <<>> /\ pk = <<>>

ParseOne ==
    /\ pc = "parse"
    /\ pk' = <<parse_version(pa)>>
    /\ pc' = "parsed"
    /\ UNCHANGED <<fs, run, payload, temp, outcome, why, fault, before, prev, nruns, pa, pb>>

NextParse == ParseOne

SpecParse == InitParse /\ [][NextParse]_vars

InitOrder == /\ Idle /\ pc = "order" /\ pa \in OrderStrs /\ pb \in OrderStrs /\ pk = <<>>

\* what max(..., key=parse_version) does with two candidates: both keys, compared
Compare ==
    /\ pc = "order"
    /\ pk' = <<parse_version(pa), parse_version(pb)>>
    /\ pc' = "ordered"
    /\ UNCHANGED <<fs, run, payload, temp, outcome, why, fault, before, prev, nruns, pa, pb>>

NextOrder == Compare

SpecOrder == InitOrder /\ [][NextOrder]_vars

----------------------------------------------------------------------------
(* The claims about the comparator *)

\* the sort key of every version of OrderStrs
OrderKey == [s \in OrderStrs |-> parse_version(s)]

Flip(c) == IF c = "lt" THEN "gt" ELSE IF c = "gt" THEN "lt" ELSE c

\* the versions that sort before s, and those that sort before it or with it
Below == [s \in OrderStrs |-> {t \in OrderStrs : CmpKey(OrderKey[t], OrderKey[s]) = "lt"}]

BelowEq == [s \in OrderStrs |-> {t \in OrderStrs : CmpKey(OrderKey[t], OrderKey[s]) \in {"lt", "eq"}}]

\* what the text of a version says, read off the string itself
DashAt(s) == FindChar(s, "-")

IsStable(s) == DashAt(s) = 0

NumericCore(s) ==
    LET parts == Split(IF IsStable(s) THEN s ELSE Take(s, DashAt(s) - 1), ".")
    IN [i \in 1..Len(parts) |-> ToInt(parts[i])]

PreIds(s) == IF IsStable(s) THEN <<>> ELSE Split(Drop(s, DashAt(s)), ".")

\* semantic-version precedence of two prerelease identifiers, and of two prereleases
SemverIdCmp(x, y) ==
    IF IsDigit(x) /\ IsDigit(y) THEN CmpInt(ToInt(x), ToInt(y))
    ELSE IF IsDigit(x) THEN "lt"
    ELSE IF IsDigit(y) THEN "gt"
    ELSE CmpStr(x, y)

SemverPreCmp(p, q) ==
    CmpLex([i \in 1..Min(Len(p), Len(q)) |-> SemverIdCmp(p[i], q[i])], Len(p), Len(q))

LeadingZero(x) == IsDigit(x) /\ Len(x) > 1 /\ x[1] = "0"

Malformed(s) ==
    LET parts == Split(IF IsStable(s) THEN s ELSE Take(s, DashAt(s) - 1), ".")
        ids == PreIds(s)
    IN \/ \E i \in 1..Len(parts) : ~IsDigit(parts[i])
       \/ \E i \in 1..Len(ids) : ~PRERELEASE_IDENTIFIER_PATTERN(ids[i])
       \/ \E i \in 1..Len(parts) : LeadingZero(parts[i])
       \/ \E i \in 1..Len(ids) : LeadingZero(ids[i])

\* C7: parse_version rejects every malformed version string
C7_MalformedRejected == pc = "parsed" /\ Malformed(pa) => ~pk[1].ok

====
